---- MODULE Spec2Model ----
(***************************************************************************)
(* Linear -> Lark webhook relay (src/main.rs).                             *)
(*                                                                         *)
(* Four specifications share this module:                                  *)
(*   Spec        one request in flight at a time, drawn from a wide set of *)
(*               headers and bodies, through every step of webhook_handler *)
(*   SpecConc    NumReqs handlers interleaved step by step, small inputs   *)
(*   FairConc    SpecConc with the fairness tokio's scheduler gives        *)
(*   SpecVerify  verify_signature as a pure function of its three inputs   *)
(*                                                                         *)
(* Bytes are naturals below 256. Text that the program compares or slices  *)
(* character by character (the signature) is a sequence of one-character   *)
(* strings; text it only copies or formats is a TLA+ string.               *)
(***************************************************************************)
EXTENDS Integers, Sequences, FiniteSets, TLC

VARIABLES
    state,      \* AppState: webhook_secret, lark_webhook_url (set once in main)
    pc,         \* per request: position inside webhook_handler
    headers,    \* per request: the linear-signature header value, if any
    body,       \* per request: the raw body bytes
    payload,    \* per request: the LinearPayload once deserialized
    posts,      \* per request: the calls of .post(url).json(card).send()
    outcome,    \* per request: what the downstream call came back with
    status,     \* per request: the StatusCode returned (0 while running)
    steps,      \* per request: the handler steps executed so far, in order
    call        \* SpecVerify: one call of verify_signature and its result

vars == <<state, pc, headers, body, payload, posts, outcome, status, steps, call>>

hvars == <<state, pc, headers, body, payload, posts, outcome, status, steps>>

----------------------------------------------------------------------------
(* Bounds *)

NumReqs == 2            \* request slots (handlers that may be in flight)

MaxBodyLen == 2         \* SpecVerify: longest raw body

MaxKeyLen == 1          \* SpecVerify: longest secret

DigestLen == 2          \* bytes of digest kept by the model's keyed hash

BlockLen == 2           \* block size of the model's keyed hash

Reqs == 1..NumReqs

----------------------------------------------------------------------------
(* Option and Result values *)

None == [some |-> FALSE]

Some(x) == [some |-> TRUE, val |-> x]

Err == [ok |-> FALSE]

Ok(x) == [ok |-> TRUE, val |-> x]

----------------------------------------------------------------------------
(* Sequence helpers *)

RECURSIVE Pow(_, _)
Pow(b, n) == IF n = 0 THEN 1 ELSE b * Pow(b, n - 1)

Range(s) == { s[i] : i \in DOMAIN s }

SeqsUpTo(S, n) == UNION { [1..k -> S] : k \in 0..n }

Replace(s, i, x) == [s EXCEPT ![i] = x]

----------------------------------------------------------------------------
(* hex::encode: two lowercase hexadecimal characters per byte *)

HexLower == <<"0","1","2","3","4","5","6","7","8","9","a","b","c","d","e","f">>

HexUpper == <<"0","1","2","3","4","5","6","7","8","9","A","B","C","D","E","F">>

hex_encode(bytes) ==
    [i \in 1..(2 * Len(bytes)) |->
        LET b == bytes[(i + 1) \div 2]
        IN  IF i % 2 = 1 THEN HexLower[(b \div 16) + 1] ELSE HexLower[(b % 16) + 1]]

\* The same digest written with uppercase digits (what a caller may present).
hex_encode_upper(bytes) ==
    [i \in 1..(2 * Len(bytes)) |->
        LET b == bytes[(i + 1) \div 2]
        IN  IF i % 2 = 1 THEN HexUpper[(b \div 16) + 1] ELSE HexUpper[(b % 16) + 1]]

----------------------------------------------------------------------------
(* Hmac::<Sha256>: the library primitive behind verify_signature.          *)
(* The model keeps HMAC's shape (the key is zero-padded to one block, a    *)
(* longer key is hashed first; the digest has a fixed width and depends on *)
(* every byte of key block and message) with a polynomial digest in place  *)
(* of SHA-256.                                                             *)

DigestMod == Pow(256, DigestLen)

RECURSIVE Absorb(_, _, _)
Absorb(h, bytes, i) ==
    IF i > Len(bytes) THEN h
    ELSE Absorb((h * 31 + bytes[i] + 1) % DigestMod, bytes, i + 1)

Sha(bytes) == Absorb(7, bytes, 1)

ToBytes(n) == [i \in 1..DigestLen |-> (n \div Pow(256, DigestLen - i)) % 256]

KeyBlock(key) ==
    LET k == IF Len(key) > BlockLen THEN ToBytes(Sha(key)) ELSE key
    IN  [i \in 1..(IF Len(k) > BlockLen THEN Len(k) ELSE BlockLen) |->
            IF i <= Len(k) THEN k[i] ELSE 0]

\* new_from_slice: accepts a key of any length, the empty key included.
new_from_slice(key) == Ok(KeyBlock(key))

\* mac.update(body); mac.finalize().into_bytes()
finalize(block, bytes) == ToBytes(Sha(block \o bytes))

----------------------------------------------------------------------------
(* Signature verification *)

\* A plausible slip: comparing the digests without regard to letter case.
Lower(c) ==
    IF \E i \in 1..16 : HexUpper[i] = c
    THEN HexLower[CHOOSE i \in 1..16 : HexUpper[i] = c]
    ELSE c

verify_signature_nocase(secret, bytes, signature) ==
    LET mac == new_from_slice(secret)
    IN  IF ~mac.ok THEN FALSE
        ELSE hex_encode(finalize(mac.val, bytes)) = [i \in DOMAIN signature |-> Lower(signature[i])]

verify_signature(secret, bytes, signature) ==
    LET mac == new_from_slice(secret)
    IN  IF ~mac.ok THEN FALSE
        ELSE LET expected == hex_encode(finalize(mac.val, bytes))
             IN  expected = signature

\* The signature a holder of `secret` computes for `bytes`.
Sign(secret, bytes) == hex_encode(finalize(KeyBlock(secret), bytes))

----------------------------------------------------------------------------
(* The linear-signature header *)

\* A header byte outside visible ASCII: HeaderValue::to_str fails on it.
OpaqueByte == "\\xff"

to_str(value) == IF OpaqueByte \in Range(value) THEN None ELSE Some(value)

\* headers.get("linear-signature").and_then(|v| v.to_str().ok())
get_signature(hdr) == IF hdr.some THEN to_str(hdr.val) ELSE None

----------------------------------------------------------------------------
(* The JSON body.                                                          *)
(* A raw body is a sequence of bytes. Each byte of the Lexicon stands for  *)
(* the text of one member of the JSON document, named by its path; any     *)
(* other byte is text that is not JSON.                                    *)

JStr(s) == [t |-> "string", s |-> s]

Num(n) == [t |-> "number", n |-> n]

Null == [t |-> "null"]

Member(k, v) == [key |-> k, val |-> v]

Lexicon == <<
    Member("action", JStr("create")),                     \*  1
    Member("action", JStr("update")),                     \*  2
    Member("action", JStr("delete")),                     \*  3
    Member("type", JStr("Issue")),                        \*  4
    Member("type", JStr("Comment")),                      \*  5
    Member("type", JStr("Project")),                      \*  6
    Member("url", JStr("https://example/ENG-42")),        \*  7
    Member("data.id", JStr("a1b2")),                      \*  8
    Member("data.title", JStr("Fix bug")),                \*  9
    Member("data.state.name", JStr("In Progress")),       \* 10
    Member("data.identifier", JStr("ENG-42")),            \* 11
    Member("data.assignee", Null),                       \* 12
    Member("data.assignee.name", JStr("Ada")),            \* 13
    Member("data.priority", Num(0 - 1)),                 \* 14
    Member("data.priority", Num(0)),                     \* 15
    Member("data.priority", Num(1)),                     \* 16
    Member("data.priority", Num(2)),                     \* 17
    Member("data.priority", Num(3)),                     \* 18
    Member("data.priority", Num(4)),                     \* 19
    Member("data.priority", Num(5)),                     \* 20
    Member("data.priority", Num(99)),                    \* 21
    Member("data.priority", Num(255)),                   \* 22
    Member("data.priority", Num(256)),                   \* 23
    Member("data.priority", JStr("high")),                \* 24
    Member("team", JStr("ENG")) >>                        \* 25 (a field the structs do not name)

JunkByte == 0

IsJson(bytes) == \A i \in DOMAIN bytes : bytes[i] \in DOMAIN Lexicon

Values(bytes, k) == { i \in DOMAIN bytes : Lexicon[bytes[i]].key = k }

Has(bytes, k) == Values(bytes, k) # {}

Value(bytes, k) == Lexicon[bytes[CHOOSE i \in Values(bytes, k) : TRUE]].val

\* The fields the derived Deserialize impls demand (all but Option<Assignee>).
RequiredFields ==
    {"action", "type", "url", "data.id", "data.title", "data.priority",
     "data.state.name", "data.identifier"}

StringFields == RequiredFields \ {"data.priority"}

AssigneeKeys == {"data.assignee", "data.assignee.name"}

\* priority: u8
IsU8(v) == v.t = "number" /\ v.n >= 0 /\ v.n <= 255

\* A plausible slip: declaring priority as Option<u8>, absent read as 0.
from_slice_lenient(bytes) ==
    IF ~IsJson(bytes) THEN Err
    ELSE IF \E k \in RequiredFields : Cardinality(Values(bytes, k)) > 1 THEN Err
    ELSE IF Cardinality(UNION { Values(bytes, k) : k \in AssigneeKeys }) > 1 THEN Err
    ELSE IF \E k \in StringFields : ~Has(bytes, k) THEN Err
    ELSE IF \E k \in StringFields : Value(bytes, k).t # "string" THEN Err
    ELSE IF Has(bytes, "data.priority") /\ ~IsU8(Value(bytes, "data.priority")) THEN Err
    ELSE Ok([action |-> Value(bytes, "action").s,
             kind   |-> Value(bytes, "type").s,
             url    |-> Value(bytes, "url").s,
             data   |-> [id         |-> Value(bytes, "data.id").s,
                         title      |-> Value(bytes, "data.title").s,
                         priority   |-> IF Has(bytes, "data.priority")
                                        THEN Value(bytes, "data.priority").n ELSE 0,
                         state      |-> [name |-> Value(bytes, "data.state.name").s],
                         assignee   |-> IF Has(bytes, "data.assignee.name")
                                        THEN Some([name |-> Value(bytes, "data.assignee.name").s])
                                        ELSE None,
                         identifier |-> Value(bytes, "data.identifier").s]])

\* serde_json::from_slice::<LinearPayload>
from_slice(bytes) ==
    IF ~IsJson(bytes) THEN Err                                      \* syntax error
    ELSE IF \E k \in RequiredFields : Cardinality(Values(bytes, k)) > 1
         THEN Err                                                   \* duplicate field
    ELSE IF Cardinality(UNION { Values(bytes, k) : k \in AssigneeKeys }) > 1
         THEN Err                                                   \* duplicate field
    ELSE IF \E k \in RequiredFields : ~Has(bytes, k) THEN Err       \* missing field
    ELSE IF \E k \in StringFields : Value(bytes, k).t # "string"
         THEN Err                                                   \* invalid type
    ELSE IF ~IsU8(Value(bytes, "data.priority")) THEN Err           \* invalid value
    ELSE Ok([action |-> Value(bytes, "action").s,
             kind   |-> Value(bytes, "type").s,
             url    |-> Value(bytes, "url").s,
             data   |-> [id         |-> Value(bytes, "data.id").s,
                         title      |-> Value(bytes, "data.title").s,
                         priority   |-> Value(bytes, "data.priority").n,
                         state      |-> [name |-> Value(bytes, "data.state.name").s],
                         assignee   |-> IF Has(bytes, "data.assignee.name")
                                        THEN Some([name |-> Value(bytes, "data.assignee.name").s])
                                        ELSE None,
                         identifier |-> Value(bytes, "data.identifier").s]])

----------------------------------------------------------------------------
(* Priority -> colour and label *)

priority_color(priority) ==
    CASE priority = 1 -> "red"
      [] priority = 2 -> "orange"
      [] priority = 3 -> "yellow"
      [] OTHER        -> "blue"

priority_label(priority) ==
    CASE priority = 1 -> "Urgent"
      [] priority = 2 -> "High"
      [] priority = 3 -> "Medium"
      [] priority = 4 -> "Low"
      [] OTHER        -> "None"

----------------------------------------------------------------------------
(* The Lark interactive card *)

LarkMd(content) == [tag |-> "lark_md", content |-> content]

ShortField(content) == [is_short |-> TRUE, text |-> LarkMd(content)]

action_label(action) ==
    CASE action = "create" -> "Created"
      [] action = "update" -> "Updated"
      [] OTHER             -> action

assignee_name(issue) ==
    IF issue.assignee.some THEN issue.assignee.val.name ELSE "Unassigned"

title_element(p) ==
    [tag |-> "div", text |-> LarkMd("**" \o p.data.title \o "**")]

fields_element(p) ==
    [tag |-> "div",
     fields |-> << ShortField("**Status:** " \o p.data.state.name),
                   ShortField("**Priority:** " \o priority_label(p.data.priority)),
                   ShortField("**Assignee:** " \o assignee_name(p.data)) >>]

action_element(p) ==
    [tag |-> "action",
     actions |-> << [tag  |-> "button",
                     text |-> [tag |-> "plain_text", content |-> "View in Linear"],
                     type |-> "primary",
                     url  |-> p.url] >>]

LarkMessage(template, title, elements) ==
    [msg_type |-> "interactive",
     card |-> [header   |-> [template |-> template,
                             title    |-> [content |-> title, tag |-> "plain_text"]],
               elements |-> elements]]

\* A plausible slip: the fields block placed ahead of the title block.
build_lark_card_fields_first(p) ==
    LarkMessage(priority_color(p.data.priority),
                "[Linear] " \o action_label(p.action) \o ": " \o p.data.identifier,
                << fields_element(p), title_element(p), action_element(p) >>)

build_lark_card(p) ==
    LarkMessage(priority_color(p.data.priority),
                "[Linear] " \o action_label(p.action) \o ": " \o p.data.identifier,
                << title_element(p), fields_element(p), action_element(p) >>)

----------------------------------------------------------------------------
(* The event filter *)

\* A plausible slip: filtering on the type alone.
is_ignored_type_only(p) == p.kind # "Issue"

\* payload.kind != "Issue" || !matches!(payload.action.as_str(), "create" | "update")
is_ignored(p) == p.kind # "Issue" \/ ~(p.action \in {"create", "update"})

----------------------------------------------------------------------------
(* Status codes *)

OK == 200

BAD_REQUEST == 400

UNAUTHORIZED == 401

----------------------------------------------------------------------------
(* The downstream call.                                                    *)
(* An empty URL makes the request builder fail, so send() returns Err      *)
(* without any I/O. Otherwise the call comes back with a 2xx response, a   *)
(* non-2xx response or a transport error, or never comes back.            *)

SendResults(url) ==
    IF url = "" THEN { [ok |-> FALSE, err |-> "builder"] }
    ELSE { [ok |-> TRUE, success |-> TRUE], [ok |-> TRUE, success |-> FALSE],
           [ok |-> FALSE, err |-> "transport"] }

----------------------------------------------------------------------------
(* What the environment may send, and how main may configure the relay *)

\* LINEAR_WEBHOOK_SECRET must be set, but may be set to the empty string.
ConfigSecrets == { <<>>, <<115, 51>> }

\* LARK_WEBHOOK_URL unset gives String::new().
ConfigUrls == { "", "https://open.larksuite.com/hook" }

Configs == [webhook_secret : ConfigSecrets, lark_webhook_url : ConfigUrls]

PriorityTexts == { <<>> } \cup { <<c>> : c \in 14..24 }

AssigneeTexts == { <<>>, <<12>>, <<13>> }

Event(a, k, p, g) == <<a, k, 7, 8, 9>> \o p \o <<10>> \o g \o <<11>>

Drop(s, i) == [j \in 1..(Len(s) - 1) |-> IF j < i THEN s[j] ELSE s[j + 1]]

WholeEvents ==
    { Event(a, k, p, g) : a \in 1..3, k \in 4..6, p \in PriorityTexts, g \in AssigneeTexts }

DamagedEvents ==
    UNION { LET e == Event(a, k, <<17>>, <<13>>)
            IN  { Drop(e, i) : i \in {1, 2, 3, 4, 5, 7, 9} }
                \cup { e \o <<JunkByte>>, e \o <<1>>, e \o <<25>>, <<>> }
          : a \in 1..3, k \in 4..6 }

Bodies == WholeEvents \cup DamagedEvents

\* The header values a sender may attach to body b when the relay holds secret s.
Presented(s, b) ==
    LET good == Sign(s, b)
    IN  { None,
          Some(good),
          Some(Sign(<<>>, b)),
          Some(Sign(s, <<>>)),
          Some(hex_encode_upper(finalize(KeyBlock(s), b))),
          Some(Replace(good, 1, IF good[1] = "0" THEN "1" ELSE "0")),
          Some(<<>>),
          Some(Replace(good, 1, OpaqueByte)) }

\* SpecConc: one secret, and four requests that among them end 401, 400, 200.
ConcConfigs == [webhook_secret : { <<115, 51>> }, lark_webhook_url : ConfigUrls]

ConcRequests(s) ==
    LET issue == Event(1, 4, <<17>>, <<13>>)
        comment == Event(2, 5, <<17>>, <<13>>)
        junk == <<JunkByte>>
    IN  { [h |-> None, b |-> issue],
          [h |-> Some(Sign(s, junk)), b |-> junk],
          [h |-> Some(Sign(s, comment)), b |-> comment],
          [h |-> Some(Sign(s, issue)), b |-> issue] }

----------------------------------------------------------------------------
(* webhook_handler, one action per step *)

IdleCall ==
    [phase |-> "idle", secret |-> <<>>, body |-> <<>>, signature |-> <<>>,
     how |-> "none", result |-> FALSE]

InitHandlers(configs) ==
    /\ state \in configs
    /\ pc = [r \in Reqs |-> "idle"]
    /\ headers = [r \in Reqs |-> None]
    /\ body = [r \in Reqs |-> <<>>]
    /\ payload = [r \in Reqs |-> None]
    /\ posts = [r \in Reqs |-> <<>>]
    /\ outcome = [r \in Reqs |-> None]
    /\ status = [r \in Reqs |-> 0]
    /\ steps = [r \in Reqs |-> <<>>]

Init ==
    /\ InitHandlers(Configs)
    /\ call = IdleCall

InitConc ==
    /\ InitHandlers(ConcConfigs)
    /\ call = IdleCall

\* The handler is entered with the request's headers and body.
Enter(r, h, b) ==
    /\ pc[r] = "idle"
    /\ pc' = [pc EXCEPT ![r] = "signature"]
    /\ headers' = [headers EXCEPT ![r] = h]
    /\ body' = [body EXCEPT ![r] = b]
    /\ UNCHANGED <<state, payload, posts, outcome, status, steps, call>>

\* Spec: a request arrives while no other is in flight.
Arrive(r) ==
    /\ \A q \in Reqs : pc[q] = "idle"
    /\ \E b \in Bodies : \E h \in Presented(state.webhook_secret, b) : Enter(r, h, b)

\* SpecConc: a request arrives whatever the other handlers are doing.
ArriveConc(r) ==
    \E req \in ConcRequests(state.webhook_secret) : Enter(r, req.h, req.b)

Return(r, code, step) ==
    /\ pc' = [pc EXCEPT ![r] = "done"]
    /\ status' = [status EXCEPT ![r] = code]
    /\ steps' = [steps EXCEPT ![r] = Append(@, step)]

Goto(r, next, step) ==
    /\ pc' = [pc EXCEPT ![r] = next]
    /\ steps' = [steps EXCEPT ![r] = Append(@, step)]
    /\ UNCHANGED status

\* 1. headers.get("linear-signature").and_then(|v| v.to_str().ok())
GetSignature(r) ==
    /\ pc[r] = "signature"
    /\ IF get_signature(headers[r]).some
       THEN Goto(r, "verify", "signature")
       ELSE Return(r, UNAUTHORIZED, "signature")
    /\ UNCHANGED <<state, headers, body, payload, posts, outcome, call>>

\* A plausible slip: deserializing before the signature is checked.
VerifySignatureAfterParse(r) ==
    /\ pc[r] = "verify"
    /\ IF ~from_slice(body[r]).ok
       THEN Return(r, BAD_REQUEST, "parse")
       ELSE IF verify_signature(state.webhook_secret, body[r], get_signature(headers[r]).val)
            THEN Goto(r, "parse", "verify")
            ELSE Return(r, UNAUTHORIZED, "verify")
    /\ UNCHANGED <<state, headers, body, payload, posts, outcome, call>>

\* if !verify_signature(&state.webhook_secret, &body, signature)
VerifySignature(r) ==
    /\ pc[r] = "verify"
    /\ IF verify_signature(state.webhook_secret, body[r], get_signature(headers[r]).val)
       THEN Goto(r, "parse", "verify")
       ELSE Return(r, UNAUTHORIZED, "verify")
    /\ UNCHANGED <<state, headers, body, payload, posts, outcome, call>>

\* 2. serde_json::from_slice(&body)
Deserialize(r) ==
    /\ pc[r] = "parse"
    /\ LET p == from_slice(body[r])
       IN  IF p.ok
           THEN Goto(r, "filter", "parse") /\ payload' = [payload EXCEPT ![r] = Some(p.val)]
           ELSE Return(r, BAD_REQUEST, "parse") /\ UNCHANGED payload
    /\ UNCHANGED <<state, headers, body, posts, outcome, call>>

\* 3. only Issue create / update
Filter(r) ==
    /\ pc[r] = "filter"
    /\ IF is_ignored(payload[r].val)
       THEN Return(r, OK, "ignore")
       ELSE Goto(r, "send", "process")
    /\ UNCHANGED <<state, headers, body, payload, posts, outcome, call>>

Post(url, json) == [url |-> url, json |-> json]

\* A plausible slip: a second attempt issued with the first.
SendTwice(r) ==
    /\ pc[r] = "send"
    /\ LET card == build_lark_card(payload[r].val)
       IN  posts' = [posts EXCEPT ![r] = @ \o << Post(state.lark_webhook_url, card),
                                                  Post(state.lark_webhook_url, card) >>]
    /\ Goto(r, "sending", "send")
    /\ UNCHANGED <<state, headers, body, payload, outcome, call>>

\* A plausible slip: the client behind a lock held across the await.
SendLocked(r) ==
    /\ pc[r] = "send"
    /\ \A q \in Reqs : pc[q] \notin {"sending", "text"}
    /\ LET card == build_lark_card(payload[r].val)
       IN  posts' = [posts EXCEPT ![r] = Append(@, Post(state.lark_webhook_url, card))]
    /\ Goto(r, "sending", "send")
    /\ UNCHANGED <<state, headers, body, payload, outcome, call>>

\* 4. build_lark_card(&payload); state.http.post(url).json(&card).send()
Send(r) ==
    /\ pc[r] = "send"
    /\ LET card == build_lark_card(payload[r].val)
       IN  posts' = [posts EXCEPT ![r] = Append(@, Post(state.lark_webhook_url, card))]
    /\ Goto(r, "sending", "send")
    /\ UNCHANGED <<state, headers, body, payload, outcome, call>>

\* A plausible slip: a failed delivery surfaced to the inbound caller.
SendReturnsPropagating(r) ==
    /\ pc[r] = "sending"
    /\ \E res \in SendResults(state.lark_webhook_url) :
        /\ outcome' = [outcome EXCEPT ![r] = Some(res)]
        /\ IF res.ok
           THEN Goto(r, "text", "response")
           ELSE Return(r, 502, "send failed")
    /\ UNCHANGED <<state, headers, body, payload, posts, call>>

\* .send().await: Ok(resp) or Err(e); on Err log and return 200
SendReturns(r) ==
    /\ pc[r] = "sending"
    /\ \E res \in SendResults(state.lark_webhook_url) :
        /\ outcome' = [outcome EXCEPT ![r] = Some(res)]
        /\ IF res.ok
           THEN Goto(r, "text", "response")
           ELSE Return(r, OK, "send failed")
    /\ UNCHANGED <<state, headers, body, payload, posts, call>>

\* resp.text().await.unwrap_or_default(); log by status.is_success(); return 200
ReadText(r) ==
    /\ pc[r] = "text"
    /\ Return(r, OK, IF outcome[r].val.success THEN "sent" ELSE "lark returned error")
    /\ UNCHANGED <<state, headers, body, payload, posts, outcome, call>>

\* The response has been written; the task ends and its values are dropped.
Finish(r) ==
    /\ pc[r] = "done"
    /\ pc' = [pc EXCEPT ![r] = "idle"]
    /\ headers' = [headers EXCEPT ![r] = None]
    /\ body' = [body EXCEPT ![r] = <<>>]
    /\ payload' = [payload EXCEPT ![r] = None]
    /\ posts' = [posts EXCEPT ![r] = <<>>]
    /\ outcome' = [outcome EXCEPT ![r] = None]
    /\ status' = [status EXCEPT ![r] = 0]
    /\ steps' = [steps EXCEPT ![r] = <<>>]
    /\ UNCHANGED <<state, call>>

\* The steps a handler takes on its own, without waiting on the downstream.
Step(r) ==
    \/ GetSignature(r)
    \/ VerifySignature(r)
    \/ Deserialize(r)
    \/ Filter(r)
    \/ Send(r)
    \/ Finish(r)

Next ==
    \/ \E r \in Reqs : Arrive(r)
    \/ \E r \in Reqs : GetSignature(r)
    \/ \E r \in Reqs : VerifySignature(r)
    \/ \E r \in Reqs : Deserialize(r)
    \/ \E r \in Reqs : Filter(r)
    \/ \E r \in Reqs : Send(r)
    \/ \E r \in Reqs : SendReturns(r)
    \/ \E r \in Reqs : ReadText(r)
    \/ \E r \in Reqs : Finish(r)

Spec == Init /\ [][Next]_vars

NextConc ==
    \/ \E r \in Reqs : ArriveConc(r)
    \/ \E r \in Reqs : GetSignature(r)
    \/ \E r \in Reqs : VerifySignature(r)
    \/ \E r \in Reqs : Deserialize(r)
    \/ \E r \in Reqs : Filter(r)
    \/ \E r \in Reqs : Send(r)
    \/ \E r \in Reqs : SendReturns(r)
    \/ \E r \in Reqs : ReadText(r)
    \/ \E r \in Reqs : Finish(r)

SpecConc == InitConc /\ [][NextConc]_vars

\* tokio runs every task that is ready: each handler's own steps are taken.
\* Nothing bounds the downstream call (no timeout), so SendReturns is not fair.
FairConc == SpecConc /\ \A r \in Reqs : WF_vars(Step(r))

----------------------------------------------------------------------------
(* SpecVerify: verify_signature applied to bounded inputs *)

KeyBytes == { 107, 115 }

BodyBytes == { 0, 1, 4, 255 }

VSecrets == SeqsUpTo(KeyBytes, MaxKeyLen)

VBodies == SeqsUpTo(BodyBytes, MaxBodyLen)

SigChars == Range(HexLower) \cup Range(HexUpper) \cup { OpaqueByte, " " }

InitVerify ==
    /\ InitHandlers({ [webhook_secret |-> <<>>, lark_webhook_url |-> ""] })
    /\ \E s \in VSecrets, b \in VBodies :
        call = [phase |-> "input", secret |-> s, body |-> b, signature |-> <<>>,
                how |-> "none", result |-> FALSE]

Present(sig, how) ==
    /\ call.phase = "input"
    /\ call' = [call EXCEPT !.phase = "presented", !.signature = sig, !.how = how]
    /\ UNCHANGED hvars

\* The sender signs the body with the relay's secret.
PresentGenuine == Present(Sign(call.secret, call.body), "genuine")

\* The body is changed in one byte after it was signed.
MutateBody ==
    /\ call.phase = "input"
    /\ \E i \in DOMAIN call.body : \E x \in BodyBytes \ { call.body[i] } :
        call' = [call EXCEPT !.phase = "presented",
                             !.signature = Sign(call.secret, call.body),
                             !.body = Replace(call.body, i, x),
                             !.how = "body mutated"]
    /\ UNCHANGED hvars

\* The signature is changed in one character.
MutateSignature ==
    LET good == Sign(call.secret, call.body)
    IN  \E i \in DOMAIN good : \E c \in SigChars \ { good[i] } :
            Present(Replace(good, i, c), "signature mutated")

\* The correct digest, written in uppercase hexadecimal.
PresentUppercase ==
    Present(hex_encode_upper(finalize(KeyBlock(call.secret), call.body)), "uppercase")

\* Anything else: nothing, a truncated digest, the digest under the empty key.
PresentOther ==
    LET good == Sign(call.secret, call.body)
    IN  \E sig \in { <<>>, SubSeq(good, 1, Len(good) - 1), good \o <<"0">>,
                     Sign(<<>>, call.body) } :
            Present(sig, "other")

CallVerify ==
    /\ call.phase = "presented"
    /\ call' = [call EXCEPT !.phase = "done",
                            !.result = verify_signature(call.secret, call.body, call.signature)]
    /\ UNCHANGED hvars

NextVerify ==
    \/ PresentGenuine
    \/ MutateBody
    \/ MutateSignature
    \/ PresentUppercase
    \/ PresentOther
    \/ CallVerify

SpecVerify == InitVerify /\ [][NextVerify]_vars

----------------------------------------------------------------------------
(* What a request is, read off its own header and raw body *)

InFlight(r) == pc[r] # "idle"

Done(r) == pc[r] = "done"

\* The header is there, readable, and verifies against the raw body.
SignatureValid(r) ==
    LET sig == get_signature(headers[r])
    IN  sig.some /\ verify_signature(state.webhook_secret, body[r], sig.val)

\* The raw body names text under path k.
Text(r, k) == IF Has(body[r], k) /\ Value(body[r], k).t = "string" THEN Value(body[r], k).s ELSE ""

IssueCreateOrUpdate(r) == Text(r, "type") = "Issue" /\ Text(r, "action") \in {"create", "update"}

Parses(r) == from_slice(body[r]).ok

Notifies(r) == SignatureValid(r) /\ Parses(r) /\ IssueCreateOrUpdate(r)

----------------------------------------------------------------------------
(* C1: a request whose linear-signature header is missing or unreadable,   *)
(* or whose signature fails verification against the raw body, is answered *)
(* 401 and goes no further: its body is never deserialized, so it is never *)
(* answered 400, whether or not the body is JSON.                          *)
C1_UnauthorizedBeforeParsing ==
    \A r \in Reqs :
        InFlight(r) /\ ~SignatureValid(r) =>
            /\ pc[r] \in {"signature", "verify", "done"}
            /\ "parse" \notin Range(steps[r])
            /\ ~payload[r].some
            /\ posts[r] = <<>>
            /\ Done(r) => status[r] = UNAUTHORIZED

C1_Witness ==
    \E r \in Reqs :
        /\ Done(r) /\ status[r] = UNAUTHORIZED
        /\ get_signature(headers[r]).some
        /\ ~IsJson(body[r])

(* C2: a request makes exactly one call of send() when its signature is    *)
(* valid, its body deserializes and it is an Issue create or update, and   *)
(* none otherwise; a failed call is not repeated.                          *)
C2_OneAttemptPerNotify ==
    \A r \in Reqs :
        Len(posts[r]) =
            IF Notifies(r) /\ pc[r] \in {"sending", "text", "done"} THEN 1 ELSE 0

C2_Witness ==
    \E r \in Reqs :
        /\ Done(r) /\ Len(posts[r]) = 1
        /\ outcome[r] = Some([ok |-> FALSE, err |-> "transport"])

(* C3: on the Notify path the handler answers 200 whatever the downstream  *)
(* call came back with: a 2xx response, a non-2xx response, a transport    *)
(* error, or the builder error of an empty URL.                            *)
C3_DeliveryOutcomeAbsorbed ==
    \A r \in Reqs :
        /\ Done(r) /\ Notifies(r) => status[r] = OK /\ outcome[r].some
        /\ pc[r] = "sending" => ENABLED SendReturns(r)
        /\ pc[r] = "text" => ENABLED ReadText(r)

C3_Witness ==
    \E r \in Reqs :
        /\ Done(r) /\ status[r] = OK
        /\ state.lark_webhook_url = ""
        /\ outcome[r] = Some([ok |-> FALSE, err |-> "builder"])

(* C4 as stated: every validly signed request whose type is not "Issue",   *)
(* or whose action is neither "create" nor "update", is answered 200 and    *)
(* makes no downstream call.                                               *)
C4_AsStated ==
    \A r \in Reqs :
        Done(r) /\ SignatureValid(r) /\ IsJson(body[r])
            /\ Has(body[r], "type") /\ Has(body[r], "action")
            /\ ~IssueCreateOrUpdate(r)
        => status[r] = OK /\ posts[r] = <<>>

(* C4 amended: every validly signed request whose body deserializes and    *)
(* whose type is not "Issue", or whose action is neither "create" nor       *)
(* "update", is answered 200 and makes no downstream call.                 *)
C4_SkippedWhenParsed ==
    \A r \in Reqs :
        InFlight(r) /\ SignatureValid(r) /\ Parses(r) /\ ~IssueCreateOrUpdate(r) =>
            /\ posts[r] = <<>>
            /\ pc[r] \notin {"send", "sending", "text"}
            /\ Done(r) => status[r] = OK

C4_Witness ==
    \E r \in Reqs :
        /\ Done(r) /\ status[r] = OK /\ posts[r] = <<>>
        /\ Text(r, "type") = "Issue" /\ Text(r, "action") = "delete"

(* C5: a validly signed request whose body is not JSON, or lacks one of    *)
(* action, type, url, data.id, data.title, data.priority, data.state.name, *)
(* data.identifier, is answered 400 and makes no downstream call; a        *)
(* request that only lacks the assignee is not rejected.                   *)
C5_MalformedRejected ==
    \A r \in Reqs :
        /\ Done(r) /\ SignatureValid(r)
             /\ (~IsJson(body[r]) \/ \E k \in RequiredFields : ~Has(body[r], k))
           => status[r] = BAD_REQUEST /\ posts[r] = <<>> /\ ~payload[r].some
        /\ Done(r) /\ SignatureValid(r)
             /\ body[r] \in { Event(a, k, <<c>>, <<>>) : a \in 1..3, k \in 4..6, c \in 15..22 }
           => status[r] = OK /\ payload[r].some /\ ~payload[r].val.data.assignee.some

C5_Witness ==
    \E r \in Reqs :
        /\ Done(r) /\ SignatureValid(r) /\ status[r] = BAD_REQUEST
        /\ IsJson(body[r]) /\ ~Has(body[r], "data.title")

(* C6: verify_signature returns false whenever the secret is empty, for    *)
(* every body and every presented signature, the HMAC computed under the   *)
(* empty key included.                                                     *)
C6_EmptySecretRejected ==
    call.phase = "done" /\ call.secret = <<>> => call.result = FALSE

(* C7: the signature computed for a body under the secret verifies; it     *)
(* stops verifying when one byte of the body or one character of the       *)
(* signature is changed; and the digest written in uppercase, where that   *)
(* differs from the lowercase form, is rejected.                           *)
C7_VerifyRoundTrip ==
    call.phase = "done" =>
        /\ call.how = "genuine" => call.result = TRUE
        /\ call.how \in {"body mutated", "signature mutated"} => call.result = FALSE
        /\ call.how = "uppercase" /\ call.signature # Sign(call.secret, call.body)
              => call.result = FALSE
        /\ call.result = TRUE => call.signature = Sign(call.secret, call.body)

C7_Witness ==
    /\ call.phase = "done" /\ call.how = "uppercase"
    /\ call.secret # <<>> /\ call.body # <<>>
    /\ call.signature # Sign(call.secret, call.body)
    /\ call.result = FALSE

----------------------------------------------------------------------------
(* The buckets the priority mapping is documented to have *)

DocumentedColor(n) ==
    IF n = 1 THEN "red" ELSE IF n = 2 THEN "orange" ELSE IF n = 3 THEN "yellow" ELSE "blue"

DocumentedLabel(n) ==
    IF n = 1 THEN "Urgent" ELSE IF n = 2 THEN "High" ELSE IF n = 3 THEN "Medium"
    ELSE IF n = 4 THEN "Low" ELSE "None"

\* The priority the raw body carries: its number, or -1 when there is none.
CarriedPriority(r) ==
    IF Has(body[r], "data.priority") /\ Value(body[r], "data.priority").t = "number"
    THEN Value(body[r], "data.priority").n
    ELSE 0 - 1

\* An Issue create/update event complete in every field but, possibly, priority.
CompleteButPriority(r) ==
    body[r] \in { Event(a, 4, p, g) : a \in 1..2, p \in PriorityTexts, g \in AssigneeTexts }

(* C8: whatever priority an inbound event carries (0..4, absent, negative, *)
(* 99, above 255), the event is not rejected and its card has the          *)
(* documented colour and label, absent and out-of-range values falling in  *)
(* the default bucket blue/None.                                           *)
C8_PriorityTotal ==
    \A r \in Reqs :
        Done(r) /\ SignatureValid(r) /\ CompleteButPriority(r) =>
            /\ status[r] = OK
            /\ Len(posts[r]) = 1
            /\ posts[r][1].json.card.header.template = DocumentedColor(CarriedPriority(r))
            /\ posts[r][1].json.card.elements[2].fields[2].text.content
                 = "**Priority:** " \o DocumentedLabel(CarriedPriority(r))

(* C9: every card sent has the header "[Linear] <Created|Updated>: <id>"   *)
(* with the priority colour as template, then exactly the bold title       *)
(* block, the fields block with Status, Priority and Assignee (or          *)
(* "Unassigned") in that order, and the action block with one button whose *)
(* URL is the event's url; all of it read off the request's own body.      *)
C9_CardStructure ==
    \A r \in Reqs : \A i \in DOMAIN posts[r] :
        LET m == posts[r][i].json
            label == IF Text(r, "action") = "create" THEN "Created" ELSE "Updated"
            who == IF Has(body[r], "data.assignee.name")
                   THEN Text(r, "data.assignee.name") ELSE "Unassigned"
        IN  /\ Text(r, "action") \in {"create", "update"}
            /\ m.msg_type = "interactive"
            /\ m.card.header =
                 [template |-> DocumentedColor(CarriedPriority(r)),
                  title |-> [content |-> "[Linear] " \o label \o ": " \o Text(r, "data.identifier"),
                             tag |-> "plain_text"]]
            /\ Len(m.card.elements) = 3
            /\ m.card.elements[1] =
                 [tag |-> "div",
                  text |-> [tag |-> "lark_md",
                            content |-> "**" \o Text(r, "data.title") \o "**"]]
            /\ m.card.elements[2].tag = "div"
            /\ [j \in DOMAIN m.card.elements[2].fields |->
                    m.card.elements[2].fields[j].text.content]
                 = << "**Status:** " \o Text(r, "data.state.name"),
                      "**Priority:** " \o DocumentedLabel(CarriedPriority(r)),
                      "**Assignee:** " \o who >>
            /\ \A j \in DOMAIN m.card.elements[2].fields :
                    m.card.elements[2].fields[j].is_short = TRUE
            /\ m.card.elements[3].tag = "action"
            /\ Len(m.card.elements[3].actions) = 1
            /\ m.card.elements[3].actions[1].tag = "button"
            /\ m.card.elements[3].actions[1].url = Text(r, "url")

C9_Witness ==
    \E r \in Reqs :
        /\ Len(posts[r]) = 1
        /\ Text(r, "action") = "update"
        /\ ~Has(body[r], "data.assignee.name")
        /\ CarriedPriority(r) = 2
        /\ posts[r][1].json.card.header.title.content = "[Linear] Updated: ENG-42"
        /\ posts[r][1].json.card.header.template = "orange"

----------------------------------------------------------------------------
(* What one request, taken alone, is answered and sends *)

ResponseFor(st, h, b) ==
    LET sig == get_signature(h)
    IN  IF ~sig.some THEN UNAUTHORIZED
        ELSE IF ~verify_signature(st.webhook_secret, b, sig.val) THEN UNAUTHORIZED
        ELSE IF ~from_slice(b).ok THEN BAD_REQUEST
        ELSE OK

OutboundFor(st, h, b) ==
    LET sig == get_signature(h)
    IN  IF sig.some /\ verify_signature(st.webhook_secret, b, sig.val)
           /\ from_slice(b).ok /\ ~is_ignored(from_slice(b).val)
        THEN << Post(st.lark_webhook_url, build_lark_card(from_slice(b).val)) >>
        ELSE <<>>

\* The request waits on the downstream endpoint (send().await, text().await).
AwaitingDownstream(r) == pc[r] \in {"sending", "text"}

(* C10: under any interleaving, a request's status and outbound message    *)
(* are those the request would get alone, from its own header and body and *)
(* the configuration; no step changes the configuration; and a request     *)
(* in flight reaches its response or its own downstream wait even while    *)
(* other requests stay suspended on the downstream call.                   *)
C10_Independent ==
    /\ [](\A r \in Reqs :
            Done(r) => /\ status[r] = ResponseFor(state, headers[r], body[r])
                       /\ posts[r] = OutboundFor(state, headers[r], body[r]))
    /\ [][state' = state]_vars
    /\ \A r \in Reqs : InFlight(r) ~> (Done(r) \/ AwaitingDownstream(r))

C10_Witness ==
    \E r, q \in Reqs :
        /\ r # q
        /\ pc[r] = "sending"
        /\ Done(q) /\ status[q] = OK /\ Len(posts[q]) = 1

====
